---- MODULE Spec2Model ----
(***************************************************************************)
(* A model of app.py: one run of the Streamlit script, from the upload     *)
(* widget through build_figure to st.plotly_chart.                         *)
(*                                                                         *)
(* Values.  A table cell is a record [k, v, t]: k = "num" holds the number *)
(* v/1000 (fixed point, three decimals, so 10006 is 10.006), k = "str"     *)
(* holds the text t, k = "nan" is pandas' missing marker (NaN / NaT).      *)
(* A row is a function from column names to cells, a DataFrame a record    *)
(* [columns, index, data] whose index keeps the row labels through every   *)
(* selection, as pandas does.                                              *)
(***************************************************************************)
EXTENDS Integers, Sequences, FiniteSets, TLC

VARIABLES pc, uploaded_file, df_plot, df_plot2, df_main, ref,
          selected_cats, price_range, fig, error

vars == <<pc, uploaded_file, df_plot, df_plot2, df_main, ref,
          selected_cats, price_range, fig, error>>

----------------------------------------------------------------------------
(* Cells *)

NaN == [k |-> "nan", v |-> 0, t |-> ""]
Num(n) == [k |-> "num", v |-> n, t |-> ""]
Str(s) == [k |-> "str", v |-> 0, t |-> s]

IsNum(c) == c.k = "num"
IsNaN(c) == c.k = "nan"

\* Comparisons as numpy makes them: any comparison with NaN is False.
Ge(a, b) == IsNum(a) /\ IsNum(b) /\ a.v >= b.v
Le(a, b) == IsNum(a) /\ IsNum(b) /\ a.v <= b.v

----------------------------------------------------------------------------
(* Column names *)

DateCol == "On_Sale_Date"
DateStrCol == "On_Sale_Date_str"
CatCol == "Suggested Position Category"
PriceCol == "List_Price"
QualCol == "qual_score"
UnitsCol == "avg_annual_units"
LabelCol == "hover_label"

num_cols ==
    << "List_Price", "qual_score", "avg_annual_units", "Page_Count",
       "Title_Age", "amazonaveragerating", "amazontotalreviews",
       "2024_units", "2025_units" >>

RECURSIVE SeqToSet(_)
SeqToSet(s) == IF s = <<>> THEN {} ELSE {Head(s)} \cup SeqToSet(Tail(s))

----------------------------------------------------------------------------
(* DataFrames *)

EmptyFrame == [columns |-> {}, index |-> <<>>, data |-> <<>>]
NoRow == [c \in {} |-> NaN]

NRows(df) == Len(df.data)

\* df[mask]: the rows whose position is in keep, in their original order,
\* each with its index label.
RECURSIVE KeepPositions(_, _, _)
KeepPositions(df, keep, i) ==
    IF i > NRows(df) THEN [columns |-> df.columns, index |-> <<>>, data |-> <<>>]
    ELSE LET rest == KeepPositions(df, keep, i + 1)
         IN  IF i \in keep
             THEN [columns |-> df.columns,
                   index |-> <<df.index[i]>> \o rest.index,
                   data |-> <<df.data[i]>> \o rest.data]
             ELSE rest

SelectRows(df, keep) == KeepPositions(df, keep, 1)

\* The values of one column, in row order.
Column(df, c) == [i \in 1..NRows(df) |-> df.data[i][c]]

\* Series.min() / Series.max(): NaN is skipped; NaN when nothing is left.
NumValues(df, c) == {df.data[i][c].v : i \in {j \in 1..NRows(df) : IsNum(df.data[j][c])}}
SetMin(S) == CHOOSE x \in S : \A y \in S : x <= y
SetMax(S) == CHOOSE x \in S : \A y \in S : x >= y
SeriesMin(df, c) == IF NumValues(df, c) = {} THEN NaN ELSE Num(SetMin(NumValues(df, c)))
SeriesMax(df, c) == IF NumValues(df, c) = {} THEN NaN ELSE Num(SetMax(NumValues(df, c)))

----------------------------------------------------------------------------
(* pd.to_numeric(errors="coerce") *)

\* The texts of the model that read as numbers, with the number they read as.
NumericText ==
    [t \in {"10.006", "10.01", "300", "15"} |->
        CASE t = "10.006" -> 10006
          [] t = "10.01"  -> 10010
          [] t = "300"    -> 300000
          [] t = "15"  -> 15000]

to_numeric_keep_text(c) == c

to_numeric(c) ==
    IF c.k = "num" THEN c
    ELSE IF c.k = "str" /\ c.t \in DOMAIN NumericText THEN Num(NumericText[c.t])
    ELSE NaN

----------------------------------------------------------------------------
(* pd.to_datetime(errors="coerce").dt.strftime("%Y-%m-%d") *)

\* The date texts of the model: the format each is written in and the
\* year, month and day it names ("none": no date can be read from it).
DateText ==
    [t \in {"2024-03-15", "03/15/2024", "2023-11-05", "11/05/2023",
            "2024-02-30", "not-a-date"} |->
        CASE t = "2024-03-15" -> [fmt |-> "%Y-%m-%d", y |-> 2024, m |-> 3,  d |-> 15]
          [] t = "03/15/2024" -> [fmt |-> "%m/%d/%Y", y |-> 2024, m |-> 3,  d |-> 15]
          [] t = "2023-11-05" -> [fmt |-> "%Y-%m-%d", y |-> 2023, m |-> 11, d |-> 5]
          [] t = "11/05/2023" -> [fmt |-> "%m/%d/%Y", y |-> 2023, m |-> 11, d |-> 5]
          [] t = "2024-02-30" -> [fmt |-> "%Y-%m-%d", y |-> 2024, m |-> 2,  d |-> 30]
          [] t = "not-a-date" -> [fmt |-> "none",     y |-> 0,    m |-> 0,  d |-> 0]]

IsLeap(y) == (y % 4 = 0 /\ y % 100 # 0) \/ y % 400 = 0
DaysInMonth(y, m) ==
    IF m = 2 THEN (IF IsLeap(y) THEN 29 ELSE 28)
    ELSE IF m \in {4, 6, 9, 11} THEN 30 ELSE 31
ValidDate(y, m, d) ==
    /\ y \in 1678..2261
    /\ m \in 1..12
    /\ d \in 1..DaysInMonth(y, m)

\* Whether a cell's text names a date at all.
ReadsAsDate(c) ==
    /\ c.k = "str"
    /\ c.t \in DOMAIN DateText
    /\ DateText[c.t].fmt # "none"
    /\ ValidDate(DateText[c.t].y, DateText[c.t].m, DateText[c.t].d)

\* The format pandas guesses for a column: that of its first non-missing
\* element, "none" when that element does not read as a date (every element
\* is then parsed on its own).
RECURSIVE GuessFormat(_, _)
GuessFormat(col, i) ==
    IF i > Len(col) THEN "none"
    ELSE IF IsNaN(col[i]) THEN GuessFormat(col, i + 1)
    ELSE IF ReadsAsDate(col[i]) THEN DateText[col[i].t].fmt
    ELSE "none"

\* strftime("%Y-%m-%d") of a timestamp.
strftime(y, m, d) ==
    CASE <<y, m, d>> = <<2024, 3, 15>> -> Str("2024-03-15")
      [] <<y, m, d>> = <<2023, 11, 5>> -> Str("2023-11-05")
      [] OTHER -> Str("0000-00-00")

to_datetime_str_keep_text(c, fmt) == c

\* One element of to_datetime(col, errors="coerce").dt.strftime("%Y-%m-%d"):
\* NaT, hence NaN, unless the element reads as a date in the column's format.
to_datetime_str(c, fmt) ==
    IF ReadsAsDate(c) /\ (fmt = "none" \/ DateText[c.t].fmt = fmt)
    THEN strftime(DateText[c.t].y, DateText[c.t].m, DateText[c.t].d)
    ELSE NaN

----------------------------------------------------------------------------
(* build_figure, lines 31-54: the working copy *)

NormalizeCell(c, cell) ==
    IF c \in SeqToSet(num_cols) THEN to_numeric(cell) ELSE cell

Normalized(df) ==
    LET fmt == GuessFormat(Column(df, DateCol), 1)
    IN  [columns |-> df.columns \cup {DateStrCol},
         index |-> df.index,
         data |-> [i \in 1..NRows(df) |->
                    [c \in df.columns \cup {DateStrCol} |->
                        IF c = DateStrCol
                        THEN to_datetime_str(df.data[i][DateCol], fmt)
                        ELSE NormalizeCell(c, df.data[i][c])]]]

----------------------------------------------------------------------------
(* build_figure, lines 56-59: main rows and reference row *)

IlocAllButLast_keep_all(df) == df

\* df.iloc[:-1]
IlocAllButLast(df) == SelectRows(df, 1..(NRows(df) - 1))

\* df.iloc[-1], for a frame with at least one row
IlocLast(df) == df.data[NRows(df)]

----------------------------------------------------------------------------
(* build_figure, lines 62-90: the sidebar filters *)

\* sorted(df_main[CatCol].dropna().unique()), as a set
all_cats(df) ==
    {df.data[i][CatCol].t : i \in {j \in 1..NRows(df) : df.data[j][CatCol].k = "str"}}

\* Series.isin(selected_cats): False for a missing value
isin(cell, cats) == cell.k = "str" /\ cell.t \in cats

CategoryFiltered_always(df, cats) ==
    SelectRows(df, {i \in 1..NRows(df) : isin(df.data[i][CatCol], cats)})

\* if selected_cats: df_main = df_main[df_main[CatCol].isin(selected_cats)]
CategoryFiltered(df, cats) ==
    IF cats # {}
    THEN SelectRows(df, {i \in 1..NRows(df) : isin(df.data[i][CatCol], cats)})
    ELSE df

\* round(x, 2) of x = n/1000: to the nearest hundredth, a tie going to the
\* even hundredth; round(nan, 2) is nan.
round2(c) ==
    IF ~IsNum(c) THEN c
    ELSE LET q == c.v \div 10
             r == c.v % 10
         IN  IF r < 5 THEN Num(10 * q)
             ELSE IF r > 5 THEN Num(10 * (q + 1))
             ELSE IF q % 2 = 0 THEN Num(10 * q) ELSE Num(10 * (q + 1))

\* st.slider's step for float arguments, 0.01
SliderStep == 10

\* What st.slider(min_value=lo, max_value=hi, value=(lo, hi)) can return:
\* any pair a <= b of steps from lo within [lo, hi]; (lo, hi) itself is the
\* default.  With nan bounds the widget has nothing to choose from and
\* returns its default, (nan, nan).
SliderChoices(lo, hi) ==
    IF IsNum(lo) /\ IsNum(hi)
    THEN LET steps == {x \in lo.v..hi.v : (x - lo.v) % SliderStep = 0}
         IN  {<<Num(p[1]), Num(p[2])>> : p \in {q \in steps \X steps : q[1] <= q[2]}}
    ELSE {<<lo, hi>>}

InRange_outside(cell, range) == ~(Ge(cell, range[1]) /\ Le(cell, range[2]))

InRange_exclusive(cell, range) ==
    IsNum(cell) /\ IsNum(range[1]) /\ IsNum(range[2])
    /\ cell.v > range[1].v /\ cell.v < range[2].v

\* (price >= price_range[0]) & (price <= price_range[1])
InRange(cell, range) == Ge(cell, range[1]) /\ Le(cell, range[2])

PriceFiltered(df, range) ==
    SelectRows(df, {i \in 1..NRows(df) : InRange(df.data[i][PriceCol], range)})

----------------------------------------------------------------------------
(* build_figure, lines 92-151: the chart *)

SizeMax == 40
FallbackSizeref == 2

\* A scale factor: the fixed-point number n (n/1000) divided by d, or nan.
Rat(n, d) == [k |-> "num", n |-> n, d |-> d]
RatNaN == [k |-> "nan", n |-> 0, d |-> 1]
RatEq(a, b) == a.k = "num" /\ b.k = "num" /\ a.n * b.d = b.n * a.d

ReferenceName == "Reference Marker Size: 15k Units"

\* The columns px.scatter is told to read: x, y, size, color, hover_name and
\* the keys of hover_data.  It raises ValueError when one is no column.
PxColumns ==
    {PriceCol, QualCol, UnitsCol, CatCol, LabelCol, DateStrCol,
     "Page_Count", "Title_Age", "amazonaveragerating", "amazontotalreviews",
     "2024_units", "2025_units"}

\* plotly express' sizeref: data_frame[size].max() / size_max ** 2, the same
\* for every trace of the figure.
PxSizeref(df) ==
    LET m == SeriesMax(df, UnitsCol)
    IN  IF IsNum(m) THEN Rat(m.v, SizeMax * SizeMax) ELSE RatNaN

\* The colour values in order of first appearance, a missing value counting
\* as one value (Series.unique()).
RECURSIVE Uniques(_, _, _)
Uniques(df, i, seen) ==
    IF i > NRows(df) THEN <<>>
    ELSE LET c == df.data[i][CatCol]
         IN  IF c \in seen THEN Uniques(df, i + 1, seen)
             ELSE <<c>> \o Uniques(df, i + 1, seen \cup {c})

\* plotly express' groups: the whole frame when the colour column has
\* exactly one value, else one group per non-missing value (groupby drops
\* missing keys); none for an empty frame.
PxGroups(df) ==
    LET u == Uniques(df, 1, {})
    IN  IF Len(u) = 1 THEN <<[name |-> u[1], rows |-> df]>>
        ELSE LET named == SelectSeq(u, LAMBDA c : ~IsNaN(c))
             IN  [g \in 1..Len(named) |->
                    [name |-> named[g],
                     rows |-> SelectRows(df, {i \in 1..NRows(df) :
                                                df.data[i][CatCol] = named[g]})]]

PxTrace(g, sizeref) ==
    [name |-> g.name.t,
     x |-> Column(g.rows, PriceCol),
     y |-> Column(g.rows, QualCol),
     size |-> Column(g.rows, UnitsCol),
     sizeref |-> sizeref,
     hovertext |-> Column(g.rows, LabelCol)]

PxTraces(df) ==
    [g \in 1..Len(PxGroups(df)) |-> PxTrace(PxGroups(df)[g], PxSizeref(df))]

\* marker.size is validated on every trace: each element a number >= 0.
ValidSize(c) == IsNum(c) /\ c.v >= 0
ValidSizes(s) == \A i \in 1..Len(s) : ValidSize(s[i])

ReferenceSizeref_from_main(f, df) == PxSizeref(df)
ReferenceSizeref_fallback(f, df) == Rat(1000 * FallbackSizeref, 1)

\* lines 128-132.  The marker of a plotly trace always has the sizeref
\* attribute, so the fallback is taken exactly when the figure has no trace.
ReferenceSizeref(f, df) ==
    IF Len(f.data) > 0 THEN f.data[1].sizeref ELSE Rat(1000 * FallbackSizeref, 1)

ReferenceTraceOf(r, sizeref) ==
    [name |-> ReferenceName,
     x |-> <<r[PriceCol]>>,
     y |-> <<r[QualCol]>>,
     size |-> <<r[UnitsCol]>>,
     sizeref |-> sizeref,
     hovertext |-> <<r[LabelCol]>>]

----------------------------------------------------------------------------
(* The uploaded files *)

MaxRows == 3

\* What the rows of an uploaded file say about one title.
TitleSet ==
    { [cat |-> Str("A"), price |-> Num(10000), units |-> Num(8000),  qual |-> Num(7100),
       date |-> Str("2024-03-15"), pages |-> Num(300000), label |-> "T1"],
      [cat |-> Str("A"), price |-> Num(10006), units |-> Num(15000), qual |-> Num(7200),
       date |-> Str("03/15/2024"), pages |-> Str("300"),  label |-> "T2"],
      [cat |-> Str("B"), price |-> Num(10010), units |-> Num(15000), qual |-> Num(7300),
       date |-> Str("2023-11-05"), pages |-> NaN,         label |-> "T3"],
      [cat |-> Str("B"), price |-> Num(10006), units |-> Num(8000),  qual |-> Num(7400),
       date |-> Str("not-a-date"), pages |-> Str("n/a"),  label |-> "T4"],
      [cat |-> NaN,      price |-> Num(10000), units |-> Num(15000), qual |-> Num(7500),
       date |-> NaN,               pages |-> Num(300000), label |-> "T5"],
      [cat |-> Str("A"), price |-> Str("n/a"), units |-> Num(8000),  qual |-> NaN,
       date |-> Str("2024-02-30"), pages |-> Num(300000), label |-> "T6"],
      [cat |-> Str("B"), price |-> Num(10010), units |-> NaN,           qual |-> Num(7700),
       date |-> Str("11/05/2023"), pages |-> Str("n/a"),  label |-> "T7"],
      [cat |-> Str("A"), price |-> Num(10010), units |-> Str("15"),  qual |-> Num(8000),
       date |-> Str("2024-03-15"), pages |-> Str("300"),  label |-> "T8"] }

AllColumns ==
    {DateCol, CatCol, PriceCol, QualCol, UnitsCol, LabelCol} \cup SeqToSet(num_cols)

\* The column sets of the uploaded files: every column, or one missing.
ColumnSets ==
    {AllColumns, AllColumns \ {CatCol}, AllColumns \ {"Title_Age"},
     AllColumns \ {DateCol}}

FileCell(r, c) ==
    CASE c = DateCol  -> r.date
      [] c = CatCol   -> r.cat
      [] c = PriceCol -> r.price
      [] c = QualCol  -> r.qual
      [] c = UnitsCol -> r.units
      [] c = LabelCol -> Str(r.label)
      [] c = "Page_Count" -> r.pages
      [] c = "Title_Age" -> Num(5000)
      [] c = "amazonaveragerating" -> Num(4500)
      [] c = "amazontotalreviews" -> Str("n/a")
      [] OTHER -> NaN

\* pd.read_csv of a file with a header line: RangeIndex 0..n-1.
Frame(cols, rows) ==
    [columns |-> cols,
     index |-> [i \in 1..Len(rows) |-> i - 1],
     data |-> [i \in 1..Len(rows) |-> [c \in cols |-> FileCell(rows[i], c)]]]

Tables ==
    UNION {{Frame(cols, rows) : rows \in [1..n -> TitleSet], cols \in ColumnSets}
            : n \in 0..MaxRows}

\* The upload widget's value: None, a file of zero bytes, or a CSV file with
\* a header line and any number of data rows.
Uploads ==
    {[kind |-> "none", table |-> EmptyFrame], [kind |-> "empty", table |-> EmptyFrame]}
    \cup {[kind |-> "csv", table |-> tb] : tb \in Tables}

----------------------------------------------------------------------------
(* The script *)

Blank ==
    /\ pc = "start"
    /\ df_plot = EmptyFrame
    /\ df_plot2 = EmptyFrame
    /\ df_main = EmptyFrame
    /\ ref = NoRow
    /\ selected_cats = {}
    /\ price_range = <<NaN, NaN>>
    /\ fig = [data |-> <<>>]
    /\ error = ""

Init ==
    /\ uploaded_file \in Uploads
    /\ Blank

Raise(e) ==
    /\ pc' = "failed"
    /\ error' = e

\* lines 21-23: st.info, st.stop
NoFile ==
    /\ pc = "start"
    /\ uploaded_file.kind = "none"
    /\ pc' = "stopped"
    /\ UNCHANGED <<uploaded_file, df_plot, df_plot2, df_main, ref,
                   selected_cats, price_range, fig, error>>

\* line 25: pd.read_csv raises EmptyDataError on a file with no header line
ReadCsv ==
    /\ pc = "start"
    /\ uploaded_file.kind # "none"
    /\ IF uploaded_file.kind = "empty"
       THEN Raise("EmptyDataError") /\ UNCHANGED df_plot
       ELSE /\ df_plot' = uploaded_file.table
            /\ pc' = "copy"
            /\ UNCHANGED error
    /\ UNCHANGED <<uploaded_file, df_plot2, df_main, ref,
                   selected_cats, price_range, fig>>

\* lines 166 and 31-54: build_figure is entered; the working copy
WorkingCopy ==
    /\ pc = "copy"
    /\ IF DateCol \notin df_plot.columns
       THEN Raise("KeyError") /\ UNCHANGED df_plot2
       ELSE /\ df_plot2' = Normalized(df_plot)
            /\ pc' = "split"
            /\ UNCHANGED error
    /\ UNCHANGED <<uploaded_file, df_plot, df_main, ref,
                   selected_cats, price_range, fig>>

\* lines 56-59: iloc[-1] raises IndexError on a frame without rows
SplitReference ==
    /\ pc = "split"
    /\ IF NRows(df_plot2) = 0
       THEN Raise("IndexError") /\ UNCHANGED <<df_main, ref>>
       ELSE /\ df_main' = IlocAllButLast(df_plot2)
            /\ ref' = IlocLast(df_plot2)
            /\ pc' = "category"
            /\ UNCHANGED error
    /\ UNCHANGED <<uploaded_file, df_plot, df_plot2,
                   selected_cats, price_range, fig>>

\* lines 65-75: the multiselect returns any subset of its options
CategoryFilter ==
    /\ pc = "category"
    /\ IF CatCol \in df_main.columns
       THEN \E cats \in SUBSET all_cats(df_main) :
                /\ selected_cats' = cats
                /\ df_main' = CategoryFiltered(df_main, cats)
       ELSE UNCHANGED <<selected_cats, df_main>>
    /\ pc' = "price"
    /\ UNCHANGED <<uploaded_file, df_plot, df_plot2, ref, price_range, fig, error>>

\* lines 78-90
PriceFilter ==
    /\ pc = "price"
    /\ IF PriceCol \in df_main.columns
       THEN \E range \in SliderChoices(round2(SeriesMin(df_main, PriceCol)),
                                       round2(SeriesMax(df_main, PriceCol))) :
                /\ price_range' = range
                /\ df_main' = PriceFiltered(df_main, range)
       ELSE UNCHANGED <<price_range, df_main>>
    /\ pc' = "scatter"
    /\ UNCHANGED <<uploaded_file, df_plot, df_plot2, ref, selected_cats, fig, error>>

\* lines 93-125: px.scatter
Scatter ==
    /\ pc = "scatter"
    /\ IF ~(PxColumns \subseteq df_main.columns)
       THEN Raise("ValueError") /\ UNCHANGED fig
       ELSE IF \E g \in 1..Len(PxTraces(df_main)) : ~ValidSizes(PxTraces(df_main)[g].size)
       THEN Raise("ValueError") /\ UNCHANGED fig
       ELSE /\ fig' = [data |-> PxTraces(df_main)]
            /\ pc' = "reference"
            /\ UNCHANGED error
    /\ UNCHANGED <<uploaded_file, df_plot, df_plot2, df_main, ref,
                   selected_cats, price_range>>

\* lines 127-160: the reference trace (its marker.size is validated like
\* any other), the layout, and the return
ReferenceMarker ==
    /\ pc = "reference"
    /\ IF ~ValidSize(ref[UnitsCol])
       THEN Raise("ValueError") /\ UNCHANGED fig
       ELSE /\ fig' = [data |-> Append(fig.data,
                          ReferenceTraceOf(ref, ReferenceSizeref(fig, df_main)))]
            /\ pc' = "built"
            /\ UNCHANGED error
    /\ UNCHANGED <<uploaded_file, df_plot, df_plot2, df_main, ref,
                   selected_cats, price_range>>

\* line 167: st.plotly_chart
PlotlyChart ==
    /\ pc = "built"
    /\ pc' = "shown"
    /\ UNCHANGED <<uploaded_file, df_plot, df_plot2, df_main, ref,
                   selected_cats, price_range, fig, error>>

Next ==
    \/ NoFile
    \/ ReadCsv
    \/ WorkingCopy
    \/ SplitReference
    \/ CategoryFilter
    \/ PriceFilter
    \/ Scatter
    \/ ReferenceMarker
    \/ PlotlyChart

Spec == Init /\ [][Next]_vars

----------------------------------------------------------------------------
(* Vocabulary of the properties *)

\* The working copy exists.
Copied == df_plot2.columns # {}

\* The split of lines 58-59 was made and the run has not failed since.
AfterSplit == pc \in {"category", "price", "scatter", "reference", "built", "shown"}

\* Both sidebar filters were applied: df_main is the filtered main set.  A
\* ValueError is raised only by the chart calls, which come after them.
AfterFilters ==
    \/ pc \in {"scatter", "reference", "built", "shown"}
    \/ (pc = "failed" /\ error = "ValueError")

\* build_figure returned its figure.
Built == pc \in {"built", "shown"}

HasCategory == CatCol \in df_plot2.columns

\* Positions of the non-reference rows of the working copy.
MainPositions == 1..(NRows(df_plot2) - 1)

LastRow == df_plot2.data[NRows(df_plot2)]

\* The labels of the rows of the filtered main set.
MainLabels == {df_main.index[i] : i \in 1..NRows(df_main)}

Increasing(s) == \A i, j \in 1..Len(s) : i < j => s[i] < s[j]

\* df_main holds exactly the rows of the working copy at the positions P,
\* in their original order.
MainIsExactly(P) ==
    /\ MainLabels = {df_plot2.index[j] : j \in P}
    /\ Increasing(df_main.index)
    /\ \A i \in 1..NRows(df_main) : df_main.data[i] = df_plot2.data[df_main.index[i] + 1]

CategoryOf(j) == df_plot2.data[j][CatCol]
PriceOf(j) == df_plot2.data[j][PriceCol]

PricePasses(j) ==
    /\ IsNum(PriceOf(j)) /\ IsNum(price_range[1]) /\ IsNum(price_range[2])
    /\ price_range[1].v <= PriceOf(j).v
    /\ PriceOf(j).v <= price_range[2].v

CategoryPasses(j) == CategoryOf(j).k = "str" /\ CategoryOf(j).t \in selected_cats

\* The categories the multiselect offers.
ObservedCats == {CategoryOf(j).t : j \in {i \in MainPositions : CategoryOf(i).k = "str"}}

\* The reference trace of a returned figure, and the traces before it.
RefTrace == fig.data[Len(fig.data)]
MainTraces == SubSeq(fig.data, 1, Len(fig.data) - 1)

\* The filtered main set a selection (cats, range) gives on the main rows.
FilteredBy(cats, range) ==
    LET main == IlocAllButLast(df_plot2)
    IN  PriceFiltered(IF HasCategory THEN CategoryFiltered(main, cats) ELSE main, range)

\* The intervals within the selected one.
NarrowerRanges == SliderChoices(price_range[1], price_range[2])

----------------------------------------------------------------------------
(* C1 *)

\* C1: for a table of N >= 1 rows, the candidate main set before any filter
\* is exactly the first N-1 rows, the reference is row N, the reference row
\* is never in the filtered main set, and the reference trace plots row N's
\* List_Price, qual_score, avg_annual_units and hover_label whatever the
\* filter selection was.
C1_Reservation ==
    /\ pc = "category" => /\ df_main.data = SubSeq(df_plot2.data, 1, NRows(df_plot2) - 1)
                          /\ df_main.index = SubSeq(df_plot2.index, 1, NRows(df_plot2) - 1)
    /\ AfterSplit => /\ NRows(df_plot2) >= 1
                     /\ ref = LastRow
                     /\ df_plot2.index[NRows(df_plot2)] \notin MainLabels
    /\ Built => /\ RefTrace.name = ReferenceName
                /\ RefTrace.x = <<LastRow[PriceCol]>>
                /\ RefTrace.y = <<LastRow[QualCol]>>
                /\ RefTrace.size = <<LastRow[UnitsCol]>>
                /\ RefTrace.hovertext = <<LastRow[LabelCol]>>

\* A figure was shown for a three-row table of which the filters kept one
\* main row and removed the other.
C1_Witness ==
    /\ pc = "shown"
    /\ NRows(df_plot2) = 3
    /\ NRows(df_main) = 1
    /\ RefTrace.hovertext = <<LastRow[LabelCol]>>

----------------------------------------------------------------------------
(* C2 *)

\* C2: with a non-empty selected category set (or no category column), the
\* filtered main set is exactly the non-reference rows, in original order,
\* whose category is in the selected set (no category predicate when the
\* column is absent; a missing category never passes) and whose list price
\* p has min <= p <= max, both ends included.
C2_FilterExact ==
    (AfterFilters /\ (~HasCategory \/ selected_cats # {})) =>
        MainIsExactly({j \in MainPositions :
                         (HasCategory => CategoryPasses(j)) /\ PricePasses(j)})

\* Category "A" alone is selected where "B" is offered too: the "B" row is
\* removed, and the row kept is priced exactly at the interval's minimum
\* and maximum.
C2_Witness ==
    /\ pc = "scatter"
    /\ HasCategory
    /\ selected_cats = {"A"}
    /\ ObservedCats = {"A", "B"}
    /\ NRows(df_main) = 1
    /\ df_main.data[1][PriceCol] = price_range[1]
    /\ df_main.data[1][PriceCol] = price_range[2]

----------------------------------------------------------------------------
(* C3 *)

\* C3 as claimed: narrowing the price interval or shrinking the selected
\* category set to any subset, the empty set included, never gives more
\* filtered rows.
C3_Original ==
    AfterFilters =>
        \A cats \in SUBSET selected_cats : \A range \in NarrowerRanges :
            NRows(FilteredBy(cats, range)) <= NRows(df_main)

\* C3, amended: narrowing the price interval or shrinking the selected
\* category set to any non-empty subset never gives more filtered rows, and
\* every row kept under the narrower selection is kept under the wider one.
C3_Monotone ==
    AfterFilters =>
        \A cats \in SUBSET selected_cats : \A range \in NarrowerRanges :
            (cats # {} \/ selected_cats = {}) =>
                /\ NRows(FilteredBy(cats, range)) <= NRows(df_main)
                /\ SeqToSet(FilteredBy(cats, range).index) \subseteq MainLabels

\* Two categories are selected over an interval that can be narrowed, two
\* main rows are kept, and a narrower selection keeps only one of them.
C3_Witness ==
    /\ pc = "scatter"
    /\ Cardinality(selected_cats) = 2
    /\ NRows(df_main) = 2
    /\ IsNum(price_range[1]) /\ IsNum(price_range[2])
    /\ price_range[1].v < price_range[2].v
    /\ \E range \in NarrowerRanges : NRows(FilteredBy({"A"}, range)) = 1

----------------------------------------------------------------------------
(* C4 *)

\* C4: when the filtered main set is not empty, the reference trace's
\* sizeref is the scale factor the main series computed from its own data,
\* max(avg_annual_units) / size_max^2, which every main trace carries.
C4_SizeCalibration ==
    (Built /\ NRows(df_main) > 0) =>
        /\ Len(MainTraces) >= 1
        /\ RatEq(RefTrace.sizeref,
                 Rat(SetMax(NumValues(df_main, UnitsCol)), 40 * 40))
        /\ \A g \in 1..Len(MainTraces) : RatEq(RefTrace.sizeref, MainTraces[g].sizeref)

\* The main series is split into two category traces, and the largest
\* bubble is not in the first of them.
C4_Witness ==
    /\ Built
    /\ Len(MainTraces) = 2
    /\ \E i \in 1..Len(MainTraces[2].size) :
         \A j \in 1..Len(MainTraces[1].size) :
            MainTraces[2].size[i].v > MainTraces[1].size[j].v

----------------------------------------------------------------------------
(* C5 *)

\* The uploaded file is a CSV file with a header line naming every column.
FullCsv == uploaded_file.kind = "csv" /\ uploaded_file.table.columns = AllColumns

\* build_figure was entered.
Entered == pc \notin {"start", "stopped"} /\ uploaded_file.kind = "csv"

\* C5: if the table has fewer than 2 rows, or the filters removed every
\* main row, build_figure does not fail, and the figure it returns has no
\* main point and exactly one trace, the reference marker with the
\* reference record alone.  (Stated for files that have every column.)
C5_DegenerateChart ==
    (FullCsv /\ Entered
       /\ (NRows(df_plot) < 2 \/ (AfterFilters /\ NRows(df_main) = 0))) =>
        /\ pc # "failed"
        /\ Built => /\ Len(fig.data) = 1
                    /\ RefTrace.name = ReferenceName
                    /\ Len(RefTrace.x) = 1

----------------------------------------------------------------------------
(* C6 *)

\* Nothing was uploaded, or what was uploaded has no data row.
NoData == uploaded_file.kind # "csv" \/ NRows(uploaded_file.table) = 0

\* C6: with no file, or a file without data rows, the run ends in the
\* explicit early exit: build_figure is never entered and nothing fails.
C6_EarlyExit == NoData => pc \in {"start", "stopped"}

----------------------------------------------------------------------------
(* C7 *)

----------------------------------------------------------------------------
(* C8 *)

\* The texts that have the form YYYY-MM-DD.
YmdTexts == {t \in DOMAIN DateText : DateText[t].fmt = "%Y-%m-%d"}

----------------------------------------------------------------------------
(* C9 *)

\* C9 as claimed: with the category column present and nothing selected, no
\* main row passes and the filtered main set is empty.  (Stated for a
\* multiselect that offers categories, so that the empty selection is the
\* user's.)
C9_Original ==
    (AfterFilters /\ HasCategory /\ ObservedCats # {} /\ selected_cats = {}) =>
        NRows(df_main) = 0

\* C9, amended: with the category column present and nothing selected, no
\* category predicate is applied: the filtered main set is exactly the
\* non-reference rows whose list price lies in the selected interval,
\* whatever their category, a missing one included.
C9_EmptySelectionUnfiltered ==
    /\ (pc = "price" /\ HasCategory /\ selected_cats = {}) =>
            MainIsExactly(MainPositions)
    /\ (AfterFilters /\ HasCategory /\ selected_cats = {}) =>
            MainIsExactly({j \in MainPositions : PricePasses(j)})

\* Every offered category was deselected, and two main rows of different
\* categories are kept.
C9_Witness ==
    /\ pc = "scatter"
    /\ HasCategory
    /\ selected_cats = {}
    /\ ObservedCats = {"A", "B"}
    /\ NRows(df_main) = 2

----------------------------------------------------------------------------
(* C10 *)

\* The main rows the default category selection keeps: all of them when no
\* category is observed, else those with a category.
DefaultKept ==
    IF ~HasCategory \/ ObservedCats = {} THEN MainPositions
    ELSE {j \in MainPositions : CategoryOf(j).k = "str"}

DefaultPrices == {PriceOf(j).v : j \in {i \in DefaultKept : IsNum(PriceOf(i))}}

\* The selection the widgets start with: every observed category, and the
\* observed minimum and maximum list price rounded to 2 decimals.
DefaultSelection ==
    /\ HasCategory => selected_cats = ObservedCats
    /\ DefaultPrices # {}
    /\ price_range = <<round2(Num(SetMin(DefaultPrices))), round2(Num(SetMax(DefaultPrices)))>>

\* C10: under the default selection every main row with a category and a
\* list price is kept.
C10_DefaultShowsAll ==
    (AfterFilters /\ HasCategory /\ DefaultSelection) =>
        \A j \in MainPositions :
            (CategoryOf(j).k = "str" /\ IsNum(PriceOf(j))) => df_plot2.index[j] \in MainLabels

====
